---- MODULE Spec2Model ----
(***************************************************************************)
(* Model of the content-management REST backend: the route layer of       *)
(* server.js (login, register, contact submit, contact list behind the    *)
(* JWT strategy) and the persistence-access layer (user-service.js, and   *)
(* its later revision carried in server.js from line 121 on: users,       *)
(* contacts, blogs, projects).                                             *)
(*                                                                         *)
(* An HTTP request is a small process: every await / promise callback of  *)
(* its handler is one action, so requests interleave exactly at the       *)
(* points where the event loop can switch between them.                   *)
(***************************************************************************)
EXTENDS Integers, Sequences, FiniteSets, TLC

VARIABLES
    variant,    \* which revision of the user service is deployed
    users,      \* the users collection, in insertion order; _id = position
    contacts,   \* number of stored contact submissions
    req,        \* the HTTP requests, by slot
    blogs,      \* the blogs collection, in insertion (date) order
    projects,   \* the projects collection: the _ids, in insertion (date) order
    nextBlogId, \* next _id the store assigns to a blog
    call,       \* the last content-store call and its settled result
    assets      \* cloudinary destroy calls issued by deleteBlog

vars == <<variant, users, contacts, req, blogs, projects, nextBlogId, call, assets>>

(***************************************************************************)
(* Bounds of the model.                                                    *)
(***************************************************************************)
MaxReq == 2          \* HTTP requests in one behaviour
MaxContacts == 2     \* contact submissions kept in the store

(***************************************************************************)
(* Values.                                                                 *)
(***************************************************************************)
Undefined == "undefined"                 \* a field the JSON body lacks
UserNames == {"alice", "bob"}
PwValues == {"pw1", "pw2", Undefined}    \* two strings and a missing field
Variants == {"v1", "v2"}                 \* v1: src/user-service.js, v2: server.js:121-648

\* {password, password2} of the register bodies tried: matching strings, both
\* fields missing (equal, yet no string to hash), and two mismatches.
RegisterBodies ==
    {<<"pw1", "pw1">>, <<Undefined, Undefined>>, <<"pw1", "pw2">>, <<"pw2", Undefined>>}

IsString(v) == v # Undefined

\* bcrypt.hash(password, salt): a salted hash, never the password itself.
Hash(pw) == IF pw = "pw1" THEN "$2a$10$pw1" ELSE "$2a$10$pw2"

\* bcrypt.compare(s, hash) without a callback: a promise that rejects on a
\* non-string argument and otherwise resolves to whether s hashes to hash.
BcryptCompare(s, hash) ==
    IF ~IsString(s) \/ ~IsString(hash) THEN "reject"
    ELSE IF hash = Hash(s) THEN "true" ELSE "false"

(***************************************************************************)
(* Session tokens.                                                         *)
(***************************************************************************)
NoToken == [sig |-> "none", expired |-> FALSE, id |-> 0, userName |-> ""]

\* jwt.sign(payload, JWT_SECRET, {expiresIn: '1h'})
JwtSign(id, userName) ==
    [sig |-> "good", expired |-> FALSE, id |-> id, userName |-> userName]

\* jwt.verify inside the JWT strategy (ignoreExpiration: false)
JwtVerify(tok) == tok.sig = "good" /\ ~tok.expired

\* Tokens a client can present: issued here (good signature), or forged, or
\* issued long ago; the embedded id may match no user.
Tokens ==
    [sig : {"good", "bad"}, expired : BOOLEAN, id : 1..2, userName : {"alice"}]

\* Authorization header: absent, not a parseable bearer token, or a bearer token.
Headers ==
    {[scheme |-> "none", token |-> NoToken], [scheme |-> "garbage", token |-> NoToken]}
      \cup {[scheme |-> "bearer", token |-> t] : t \in Tokens}

\* ExtractJwt.fromAuthHeaderAsBearerToken()
ExtractJwt(header) == IF header.scheme = "bearer" THEN header.token ELSE NoToken

(***************************************************************************)
(* The users collection.                                                   *)
(***************************************************************************)
\* User.findOne({userName}): the _id of the matching record, 0 for null.
FindOne(userName) ==
    IF \E i \in 1..Len(users) : users[i].userName = userName
    THEN CHOOSE i \in 1..Len(users) : users[i].userName = userName
    ELSE 0

\* User.findById(id): the _id when a record has it, 0 for null.
FindById(id) == IF id \in 1..Len(users) THEN id ELSE 0

DuplicateKey_NoIndex(userName) == FALSE

\* The unique index on userName (unique: true): a save of a second record with
\* the same userName fails with a duplicate-key error.
DuplicateKey(userName) == \E i \in 1..Len(users) : users[i].userName = userName

(***************************************************************************)
(* Requests.                                                               *)
(***************************************************************************)
Reqs == 1..MaxReq

NoHeader == [scheme |-> "none", token |-> NoToken]

IdleReq ==
    [kind |-> "none", pc |-> "idle", userName |-> "", password |-> Undefined,
     password2 |-> Undefined, header |-> NoHeader, hash |-> Undefined,
     saltOk |-> TRUE, found |-> 0, settled |-> FALSE, created |-> FALSE,
     nresp |-> 0, status |-> 0, json |-> FALSE, body |-> {},
     msg |-> "", token |-> NoToken, data |-> 0]

\* Slots are taken in order: request ids are labels only.
CanStart(r) ==
    /\ req[r].pc = "idle"
    /\ IF r = 1 THEN TRUE ELSE req[r - 1].pc # "idle"

\* res.status(s).json({...}): one response with a JSON body.
Respond(q, s, m, keys, tok) ==
    [q EXCEPT !.nresp = @ + 1, !.status = s, !.json = TRUE, !.body = keys,
              !.msg = m, !.token = tok]

\* res.end(text) by passport's fail(), or Express's default error handler
\* after next(err): one response whose body is not JSON.
RespondText(q, s, m) ==
    [q EXCEPT !.nresp = @ + 1, !.status = s, !.json = FALSE, !.body = {},
              !.msg = m, !.token = NoToken]

(***************************************************************************)
(* POST /api/user/register and registerUser.                               *)
(***************************************************************************)
PasswordsDiffer_Unchecked(p, p2) == FALSE

\* userData.password !== userData.password2
PasswordsDiffer(p, p2) == p # p2

\* The route after registerUser resolved with newUser (id 0: undefined, what
\* v1's resolve() passes): newUser._id throws on undefined and the catch
\* answers 422; otherwise 201 {message, token}.
RouteRegisterResolved(q, id) ==
    IF id = 0
    THEN Respond(q, 422, "TypeError", {"message"}, NoToken)
    ELSE Respond(q, 201, "User created successfully", {"message", "token"},
                 JwtSign(id, q.userName))

\* The route's catch after registerUser rejected with msg.
RouteRegisterRejected(q, m) == Respond(q, 422, m, {"message"}, NoToken)

\* resolve(v) / reject(m) of registerUser's promise: only the first settles it.
ResolveRegister(q, id) ==
    IF q.settled THEN q ELSE [RouteRegisterResolved(q, id) EXCEPT !.settled = TRUE]

RejectRegister(q, m) ==
    IF q.settled THEN q ELSE [RouteRegisterRejected(q, m) EXCEPT !.settled = TRUE]

\* What registerUser resolves with after a save: v1 resolve() (undefined),
\* v2 resolve(userResponse) carrying the saved _id.
ResolvedUser(id) == IF variant = "v1" THEN 0 ELSE id

\* The request arrives; the password check runs before any I/O.
RegisterStart(r, u, p, p2) ==
    /\ CanStart(r)
    /\ LET q == [IdleReq EXCEPT !.kind = "register", !.userName = u, !.password = p,
                                !.password2 = p2]
       IN  req' = [req EXCEPT ![r] =
                IF PasswordsDiffer(p, p2)
                THEN [RejectRegister(q, "Passwords do not match") EXCEPT !.pc = "done"]
                ELSE [q EXCEPT !.pc = "reg_lookup"]]
    /\ UNCHANGED <<variant, users, contacts, blogs, projects, nextBlogId, call, assets>>

\* User.findOne({userName}) settles.
RegisterLookup(r, dbOk) ==
    /\ req[r].pc = "reg_lookup"
    /\ LET q == req[r]
       IN  req' = [req EXCEPT ![r] =
                IF ~dbOk THEN [RejectRegister(q, "store error") EXCEPT !.pc = "done"]
                ELSE IF FindOne(q.userName) # 0
                THEN [RejectRegister(q, "Username already exists") EXCEPT !.pc = "done"]
                ELSE [q EXCEPT !.pc = "reg_salt"]]
    /\ UNCHANGED <<variant, users, contacts, blogs, projects, nextBlogId, call, assets>>

\* bcrypt.genSalt(10, cb) calls back: v2 rejects on err, v1 ignores err and
\* goes on to hash with an undefined salt.
RegisterSalt(r, ok) ==
    /\ req[r].pc = "reg_salt"
    /\ LET q == req[r]
       IN  req' = [req EXCEPT ![r] =
                IF variant = "v2" /\ ~ok
                THEN [RejectRegister(q, "salt error") EXCEPT !.pc = "done"]
                ELSE [q EXCEPT !.pc = "reg_hash", !.saltOk = ok]]
    /\ UNCHANGED <<variant, users, contacts, blogs, projects, nextBlogId, call, assets>>

\* bcrypt.hash(password, salt, cb): err on a non-string password or salt.
HashFails(q) == ~IsString(q.password) \/ ~q.saltOk

\* bcrypt.hash calls back: v2 returns after reject(err); v1 rejects and falls
\* through to the save with hash undefined.
RegisterHash(r) ==
    /\ req[r].pc = "reg_hash"
    /\ LET q == req[r]
       IN  req' = [req EXCEPT ![r] =
                IF HashFails(q)
                THEN IF variant = "v2"
                     THEN [RejectRegister(q, "hash error") EXCEPT !.pc = "done"]
                     ELSE [RejectRegister(q, "hash error") EXCEPT
                              !.pc = "reg_save", !.hash = Undefined]
                ELSE [q EXCEPT !.pc = "reg_save", !.hash = Hash(q.password)]]
    /\ UNCHANGED <<variant, users, contacts, blogs, projects, nextBlogId, call, assets>>

\* new User({userName, password: hash}).save() fails on a store error or on
\* the unique index.
SaveFails(q, dbOk) == ~dbOk \/ DuplicateKey(q.userName)

\* The err the failed save rejects with.
SaveError(q) == IF DuplicateKey(q.userName) THEN "E11000 duplicate key" ELSE "store error"

\* The save settles.
RegisterSave(r, dbOk) ==
    /\ req[r].pc = "reg_save"
    /\ LET q == req[r]
       IN  IF SaveFails(q, dbOk)
           THEN /\ req' = [req EXCEPT ![r] =
                        [RejectRegister(q, SaveError(q)) EXCEPT !.pc = "done"]]
                /\ users' = users
           ELSE /\ users' = Append(users, [userName |-> q.userName, password |-> q.hash])
                /\ req' = [req EXCEPT ![r] =
                        [ResolveRegister(q, ResolvedUser(Len(users) + 1)) EXCEPT
                            !.pc = "done", !.created = TRUE]]
    /\ UNCHANGED <<variant, contacts, blogs, projects, nextBlogId, call, assets>>

(***************************************************************************)
(* POST /api/user/login and checkUser.                                     *)
(***************************************************************************)
LoginStart(r, u, p) ==
    /\ CanStart(r)
    /\ req' = [req EXCEPT ![r] =
            [IdleReq EXCEPT !.kind = "login", !.userName = u, !.password = p,
                            !.pc = "login_lookup"]]
    /\ UNCHANGED <<variant, users, contacts, blogs, projects, nextBlogId, call, assets>>

\* User.findOne({userName}).exec() settles: a store error or no user rejects
\* checkUser and the route answers 401; a user goes on to bcrypt.compare.
LoginLookup(r, dbOk) ==
    /\ req[r].pc = "login_lookup"
    /\ LET q == req[r]
       IN  req' = [req EXCEPT ![r] =
                IF ~dbOk \/ FindOne(q.userName) = 0
                THEN [Respond(q, 401, "Authentication failed", {"message"}, NoToken)
                         EXCEPT !.pc = "done"]
                ELSE [q EXCEPT !.pc = "login_compare", !.found = FindOne(q.userName)]]
    /\ UNCHANGED <<variant, users, contacts, blogs, projects, nextBlogId, call, assets>>

\* What the then-callback of bcrypt.compare does with its outcome. A rejected
\* compare has no handler: checkUser's promise never settles and the route's
\* await never returns.
AfterCompare(q, res) ==
    IF res = "true"
    THEN [Respond(q, 200, "Login successful", {"message", "token", "user"},
                  JwtSign(q.found, users[q.found].userName)) EXCEPT !.pc = "done"]
    ELSE IF res = "false"
    THEN [Respond(q, 401, "Authentication failed", {"message"}, NoToken)
             EXCEPT !.pc = "done"]
    ELSE [q EXCEPT !.pc = "hung"]

LoginCompare(r) ==
    /\ req[r].pc = "login_compare"
    /\ LET q == req[r]
       IN  req' = [req EXCEPT ![r] =
                AfterCompare(q, BcryptCompare(q.password, users[q.found].password))]
    /\ UNCHANGED <<variant, users, contacts, blogs, projects, nextBlogId, call, assets>>

(***************************************************************************)
(* POST /api/contact/submit.                                               *)
(***************************************************************************)
SubmitStart(r) ==
    /\ CanStart(r)
    /\ contacts < MaxContacts
    /\ req' = [req EXCEPT ![r] = [IdleReq EXCEPT !.kind = "submit", !.pc = "submit_save"]]
    /\ UNCHANGED <<variant, users, contacts, blogs, projects, nextBlogId, call, assets>>

\* newContact.save() settles.
SubmitSave(r, ok) ==
    /\ req[r].pc = "submit_save"
    /\ LET q == req[r]
       IN  IF ok /\ contacts < MaxContacts
           THEN /\ contacts' = contacts + 1
                /\ req' = [req EXCEPT ![r] =
                        [Respond(q, 201, "Contact submitted successfully", {"message"},
                                 NoToken) EXCEPT !.pc = "done"]]
           ELSE /\ contacts' = contacts
                /\ req' = [req EXCEPT ![r] =
                        [Respond(q, 500, "Error saving contact", {"message"}, NoToken)
                            EXCEPT !.pc = "done"]]
    /\ UNCHANGED <<variant, users, blogs, projects, nextBlogId, call, assets>>

(***************************************************************************)
(* GET /api/contact/all behind passport.authenticate('jwt').               *)
(***************************************************************************)
\* The strategy extracts and verifies the token: no token, or a token that
\* jwt.verify refuses, is passport's fail(): 401 "Unauthorized".
ListStart(r, header) ==
    /\ CanStart(r)
    /\ LET q == [IdleReq EXCEPT !.kind = "list", !.header = header]
           tok == ExtractJwt(header)
       IN  req' = [req EXCEPT ![r] =
                IF tok = NoToken \/ ~JwtVerify(tok)
                THEN [RespondText(q, 401, "Unauthorized") EXCEPT !.pc = "done"]
                ELSE [q EXCEPT !.pc = "auth_lookup"]]
    /\ UNCHANGED <<variant, users, contacts, blogs, projects, nextBlogId, call, assets>>

\* getUserById(jwt_payload._id) settles inside the verify callback. It
\* rejects both on a store error and when no user has the id, so the
\* callback's catch runs done(err, false): passport's error() hands err to
\* next(err) and Express's default handler answers 500.
VerifyCallback(q, dbOk) ==
    IF dbOk /\ FindById(ExtractJwt(q.header).id) # 0
    THEN [q EXCEPT !.pc = "list_find", !.found = FindById(ExtractJwt(q.header).id)]
    ELSE [RespondText(q, 500, "Internal Server Error") EXCEPT !.pc = "done"]

AuthLookup(r, dbOk) ==
    /\ req[r].pc = "auth_lookup"
    /\ req' = [req EXCEPT ![r] = VerifyCallback(req[r], dbOk)]
    /\ UNCHANGED <<variant, users, contacts, blogs, projects, nextBlogId, call, assets>>

\* getContacts() settles in the route handler.
ListFind(r, ok) ==
    /\ req[r].pc = "list_find"
    /\ LET q == req[r]
       IN  req' = [req EXCEPT ![r] =
                IF ok
                THEN [Respond(q, 200, "", {"contacts"}, NoToken) EXCEPT
                         !.pc = "done", !.data = contacts]
                ELSE [Respond(q, 500, "Unable to retrieve contacts", {"message"}, NoToken)
                         EXCEPT !.pc = "done"]]
    /\ UNCHANGED <<variant, users, contacts, blogs, projects, nextBlogId, call, assets>>

(***************************************************************************)
(* The HTTP specification: the four routes over the user/contact store.    *)
(***************************************************************************)
NoCall ==
    [op |-> "none", id |-> 0, caller |-> 0, content |-> << >>, excerpt |-> << >>,
     dbOk |-> TRUE, result |-> "none", msg |-> "", page |-> 0, limit |-> 0,
     publishedOnly |-> FALSE, items |-> << >>, total |-> 0, totalPages |-> 0,
     hasNextPage |-> FALSE, hasPreviousPage |-> FALSE]

\* A store left by earlier runs of the service: empty, or holding alice.
InitialUsers == {<< >>, <<[userName |-> "alice", password |-> Hash("pw1")]>>}

InitHttp ==
    /\ variant \in Variants
    /\ users \in InitialUsers
    /\ contacts = 0
    /\ req = [r \in Reqs |-> IdleReq]
    /\ blogs = << >>
    /\ projects = << >>
    /\ nextBlogId = 1
    /\ call = NoCall
    /\ assets = << >>

\* The credential routes: register and login.
NextAuth ==
    \/ \E r \in Reqs, u \in UserNames, b \in RegisterBodies :
          RegisterStart(r, u, b[1], b[2])
    \/ \E r \in Reqs, dbOk \in BOOLEAN : RegisterLookup(r, dbOk)
    \/ \E r \in Reqs, ok \in BOOLEAN : RegisterSalt(r, ok)
    \/ \E r \in Reqs : RegisterHash(r)
    \/ \E r \in Reqs, dbOk \in BOOLEAN : RegisterSave(r, dbOk)
    \/ \E r \in Reqs, u \in UserNames, p \in PwValues : LoginStart(r, u, p)
    \/ \E r \in Reqs, dbOk \in BOOLEAN : LoginLookup(r, dbOk)
    \/ \E r \in Reqs : LoginCompare(r)

\* The contact routes: public submit and the protected list.
NextContact ==
    \/ \E r \in Reqs : SubmitStart(r)
    \/ \E r \in Reqs, ok \in BOOLEAN : SubmitSave(r, ok)
    \/ \E r \in Reqs, h \in Headers : ListStart(r, h)
    \/ \E r \in Reqs, dbOk \in BOOLEAN : AuthLookup(r, dbOk)
    \/ \E r \in Reqs, ok \in BOOLEAN : ListFind(r, ok)

SpecAuth == InitHttp /\ [][NextAuth]_vars

SpecContact == InitHttp /\ [][NextContact]_vars

(***************************************************************************)
(* Properties of the credential routes.                                    *)
(***************************************************************************)
Finished(r) == req[r].pc \in {"done", "hung"}

MatchingRegister(r) ==
    req[r].kind = "register" /\ req[r].password = req[r].password2

\* C3: two register requests with matching passwords for the same username,
\* however their lookups, hashes and saves interleave: at most one creates a
\* user record, whichever did not create one has answered 422 exactly once,
\* and the users collection never holds two records with one userName.
C3_OneRecordPerUserName ==
    /\ \A i, j \in 1..Len(users) : users[i].userName = users[j].userName => i = j
    /\ \A r, s \in Reqs :
          (/\ r # s
           /\ MatchingRegister(r) /\ MatchingRegister(s)
           /\ req[r].userName = req[s].userName
           /\ req[r].pc = "done" /\ req[s].pc = "done")
          => /\ ~(req[r].created /\ req[s].created)
             /\ ~req[s].created => (req[s].status = 422 /\ req[s].nresp = 1)

\* Both requests passed the lookup before either saved: one saved, the other
\* ran into the unique index.
C3_Witness ==
    \E r, s \in Reqs :
        /\ r # s
        /\ MatchingRegister(r) /\ MatchingRegister(s)
        /\ req[r].userName = req[s].userName
        /\ req[r].created /\ req[r].pc = "done"
        /\ req[s].pc = "done" /\ req[s].msg = "E11000 duplicate key"
        /\ req[s].status = 422

\* C4: a register request whose password differs from password2 is answered
\* in the step that accepts it, with 422 "Passwords do not match", whatever
\* the username and the store, and that step leaves the users collection as
\* it was.
C4_MismatchRejected ==
    [][\A r \in Reqs :
          (/\ req[r].pc = "idle"
           /\ req'[r].kind = "register"
           /\ req'[r].password # req'[r].password2)
          => /\ req'[r].pc = "done"
             /\ req'[r].status = 422
             /\ req'[r].msg = "Passwords do not match"
             /\ req'[r].nresp = 1
             /\ ~req'[r].created
             /\ users' = users]_vars

\* A mismatching register for a username the store does not hold has ended.
C4_Witness ==
    \E r \in Reqs :
        /\ req[r].kind = "register"
        /\ req[r].password # req[r].password2
        /\ FindOne(req[r].userName) = 0
        /\ req[r].pc = "done" /\ req[r].status = 422

\* C5: a register request with matching passwords whose password was salted
\* and hashed, and that created a record, answers 201 with a body holding
\* both the token and the created user; a 422 never goes with a created
\* record.
C5_RegisterAnswers201WithUser ==
    \A r \in Reqs :
        (MatchingRegister(r) /\ req[r].hash # Undefined /\ req[r].pc = "done")
        => /\ req[r].created
              => (req[r].status = 201 /\ {"token", "user"} \subseteq req[r].body)
           /\ req[r].status = 422 => ~req[r].created

\* The stored record the login names and whose hash the password matches.
CorrectCredentials(r) ==
    /\ FindOne(req[r].userName) # 0
    /\ BcryptCompare(req[r].password, users[FindOne(req[r].userName)].password) = "true"

\* C6: a login whose lookup returned the user and whose password is correct
\* answers 200 with a token that verifies and whose id resolves through
\* findById to that same record; a login with an unknown username or any
\* other password answers 401 and carries no token.
C6_LoginRoundTrip ==
    \A r \in Reqs :
        (req[r].kind = "login" /\ Finished(r))
        => IF CorrectCredentials(r)
           THEN req[r].found # 0
                => /\ req[r].status = 200
                   /\ JwtVerify(req[r].token)
                   /\ FindById(req[r].token.id) = FindOne(req[r].userName)
                   /\ req[r].token.userName = req[r].userName
           ELSE req[r].status = 401 /\ req[r].token = NoToken

\* C8: a request whose handler has run to its last callback has been answered
\* exactly once, with a JSON body; no request is answered twice.
C8_EveryRequestAnswered ==
    \A r \in Reqs :
        /\ req[r].nresp <= 1
        /\ Finished(r) => (req[r].nresp = 1 /\ req[r].json)

\* registerUser's promise of request r was rejected (not resolved).
RegisterRejected(r) ==
    /\ req[r].kind = "register"
    /\ req[r].settled
    /\ req[r].msg \in {"Passwords do not match", "Username already exists",
                       "store error", "salt error", "hash error",
                       "E11000 duplicate key", "save error"}

\* C11: a registerUser that ended in rejection (mismatch, existing username,
\* salt, hash or save failure) created no user record, and every stored user
\* record carries a password hash.
C11_RejectedRegisterSavesNothing ==
    /\ \A r \in Reqs :
          (RegisterRejected(r) /\ req[r].pc = "done") => ~req[r].created
    /\ \A i \in 1..Len(users) : users[i].password # Undefined

(***************************************************************************)
(* Properties of the protected contact list.                               *)
(***************************************************************************)
\* The bearer token of the request verifies and its id names a stored user.
Authenticated(r) ==
    /\ ExtractJwt(req[r].header) # NoToken
    /\ JwtVerify(ExtractJwt(req[r].header))
    /\ FindById(ExtractJwt(req[r].header).id) # 0

\* C1: GET /api/contact/all returns the contact list only to a request whose
\* bearer token verifies and resolves to a user; every other request is
\* answered 401 without contact data.
C1_ListOnlyWhenAuthenticated ==
    \A r \in Reqs :
        (req[r].kind = "list" /\ req[r].pc = "done")
        => /\ "contacts" \in req[r].body => Authenticated(r)
           /\ ~Authenticated(r) => (req[r].status = 401 /\ "contacts" \notin req[r].body)

(***************************************************************************)
(* Strings of the content store. A string is a sequence of segments, each  *)
(* a short pattern repeated cyclically for n characters: "aaa" is          *)
(* <<[pat |-> <<"a">>, n |-> 3]>>, "w w w" is <<[pat |-> <<"w", " ">>,     *)
(* n |-> 5]>>. The operators below are the JavaScript string operations    *)
(* on that representation.                                                 *)
(***************************************************************************)
ExcerptCut == 297        \* content.substring(0, 297)
WordsPerMinute == 200    \* Math.ceil(wordCount / 200)
ExcerptMax == 300        \* excerpt: maxlength 300

Min(a, b) == IF a < b THEN a ELSE b
Max(a, b) == IF a > b THEN a ELSE b

Seg(pat, n) == [pat |-> pat, n |-> n]

\* The i-th character (from 1) of segment g.
SegCharAt(g, i) == g.pat[((i - 1) % Len(g.pat)) + 1]

\* How often character c occurs in segment g.
SegCount(g, c) ==
    LET k == Len(g.pat)
    IN  (g.n \div k) * Cardinality({j \in 1..k : g.pat[j] = c})
          + Cardinality({j \in 1..(g.n % k) : g.pat[j] = c})

RECURSIVE StrLen(_)
\* s.length
StrLen(s) == IF s = << >> THEN 0 ELSE s[1].n + StrLen(Tail(s))

RECURSIVE CharAt(_, _)
\* s.charAt(i - 1), for i in 1..StrLen(s)
CharAt(s, i) ==
    IF i <= s[1].n THEN SegCharAt(s[1], i) ELSE CharAt(Tail(s), i - s[1].n)

RECURSIVE CountChar(_, _)
CountChar(s, c) == IF s = << >> THEN 0 ELSE SegCount(s[1], c) + CountChar(Tail(s), c)

RECURSIVE Substring(_, _)
\* s.substring(0, b)
Substring(s, b) ==
    IF b <= 0 \/ s = << >> THEN << >>
    ELSE IF s[1].n <= b THEN <<s[1]>> \o Substring(Tail(s), b - s[1].n)
    ELSE <<Seg(s[1].pat, b)>>

Rep(c, n) == <<Seg(<<c>>, n)>>

\* k one-letter words separated by single spaces.
Words(k) == <<Seg(<<"w", " ">>, 2 * k - 1)>>

Ellipsis == Rep(".", 3)

\* JavaScript truthiness of a string field: undefined and '' are both falsy.
Truthy(s) == s # << >>

\* s.split(' ').length: one piece more than there are spaces.
SplitLength(s) == CountChar(s, " ") + 1

CeilDiv_Floor(a, b) == a \div b

\* Math.ceil(a / b) for a >= 0, b > 0
CeilDiv(a, b) == (a + b - 1) \div b

\* Contents tried: 3 characters; exactly 297 (149 words); 200 words (399
\* characters); 1000 characters holding 201 words.
Contents ==
    {Words(2), Words(149), Words(200), Words(200) \o Rep(" ", 1) \o Rep("a", 600)}

\* Explicit excerpts tried: none, a short one, one over the schema's maxlength.
Excerpts == {<< >>, Rep("s", 3), Rep("e", 301)}

NoImage == ""
Images == {NoImage, "https://res.cloudinary.com/demo/image/upload/portfolio/images/hero.jpg"}

\* featuredImage.split('/').pop().split('.')[0]
PublicId(url) == IF url = NoImage THEN "" ELSE "hero"

UserIds == {1, 2}        \* _ids of the users that call the content store

(***************************************************************************)
(* Blog management.                                                        *)
(***************************************************************************)
MaxBlogs == 1            \* blogs created in one behaviour

AutoExcerpt_NoEllipsis(content) == Substring(content, ExcerptCut)

\* content.substring(0, 297) + '...'
AutoExcerpt(content) == Substring(content, ExcerptCut) \o Ellipsis

\* Math.ceil(content.split(' ').length / 200)
ReadTime(content) == CeilDiv(SplitLength(content), WordsPerMinute)

\* The head of createBlog and updateBlog: excerpt when absent and content is
\* present, readTime when content is present (readTime 0: not set).
Derive(data) ==
    [data EXCEPT
        !.excerpt = IF ~Truthy(data.excerpt) /\ Truthy(data.content)
                    THEN AutoExcerpt(data.content) ELSE @,
        !.readTime = IF Truthy(data.content) THEN ReadTime(data.content) ELSE @]

BlogData(content, excerpt, image) ==
    [content |-> content, excerpt |-> excerpt, readTime |-> 0, featuredImage |-> image]

\* Schema validation on save: content required, excerpt maxlength 300.
ValidBlog(d) == Truthy(d.content) /\ StrLen(d.excerpt) <= ExcerptMax

\* Update validators (runValidators: true) on the paths of the update.
ValidUpdate(d) == StrLen(d.excerpt) <= ExcerptMax

Matches_IdOnly(b, id, authorId) == b.id = id

\* The filter {_id: id, author: authorId}
Matches(b, id, authorId) == b.id = id /\ b.author = authorId

\* Position in bs of the blog the filter selects, 0 when none does.
FindBlog(bs, id, authorId) ==
    IF \E i \in 1..Len(bs) : Matches(bs[i], id, authorId)
    THEN CHOOSE i \in 1..Len(bs) : Matches(bs[i], id, authorId)
    ELSE 0

\* bs without the blog at position i.
RemoveAt(bs, i) == SubSeq(bs, 1, i - 1) \o SubSeq(bs, i + 1, Len(bs))

\* bs without any blog whose _id is id.
Without(bs, id) == SelectSeq(bs, LAMBDA b : b.id # id)

Call(op, id, caller, data, dbOk, result, msg) ==
    [NoCall EXCEPT !.op = op, !.id = id, !.caller = caller, !.content = data.content,
                   !.excerpt = data.excerpt, !.dbOk = dbOk, !.result = result,
                   !.msg = msg]

\* createBlog(blogData, authorId)
CreateBlog(content, excerpt, image, authorId, dbOk) ==
    /\ nextBlogId <= MaxBlogs
    /\ LET data == BlogData(content, excerpt, image)
           d == Derive(data)
       IN  IF ValidBlog(d) /\ dbOk
           THEN /\ blogs' = Append(blogs,
                        [id |-> nextBlogId, author |-> authorId, content |-> d.content,
                         excerpt |-> d.excerpt, readTime |-> d.readTime,
                         featuredImage |-> d.featuredImage, published |-> FALSE])
                /\ nextBlogId' = nextBlogId + 1
                /\ call' = Call("createBlog", nextBlogId, authorId, data, dbOk,
                                "resolved", "")
           ELSE /\ UNCHANGED <<blogs, nextBlogId>>
                /\ call' = Call("createBlog", 0, authorId, data, dbOk,
                                "rejected", "Error creating blog")
    /\ UNCHANGED <<variant, users, contacts, req, projects, assets>>

\* The $set of findOneAndUpdate: every field the update carries.
ApplyUpdate(b, d) ==
    [b EXCEPT !.content = IF Truthy(d.content) THEN d.content ELSE @,
              !.excerpt = IF Truthy(d.excerpt) THEN d.excerpt ELSE @,
              !.readTime = IF d.readTime # 0 THEN d.readTime ELSE @]

\* updateBlog(id, updateData, authorId) on the store bs: how the promise
\* settles and the store it leaves.
UpdateBlogOutcome(bs, id, data, authorId, dbOk) ==
    LET d == Derive(data)
        i == FindBlog(bs, id, authorId)
    IN  IF ~ValidUpdate(d)
        THEN [result |-> "rejected", msg |-> "Error updating blog: ValidationError",
              blogs |-> bs]
        ELSE IF ~dbOk
        THEN [result |-> "rejected", msg |-> "Error updating blog: store error",
              blogs |-> bs]
        ELSE IF i = 0
        THEN [result |-> "rejected", msg |-> "Blog not found or unauthorized",
              blogs |-> bs]
        ELSE [result |-> "resolved", msg |-> "",
              blogs |-> [bs EXCEPT ![i] = ApplyUpdate(bs[i], d)]]

UpdateBlog(id, content, excerpt, authorId, dbOk) ==
    /\ LET data == BlogData(content, excerpt, NoImage)
           out == UpdateBlogOutcome(blogs, id, data, authorId, dbOk)
       IN  /\ blogs' = out.blogs
           /\ call' = Call("updateBlog", id, authorId, data, dbOk, out.result, out.msg)
    /\ UNCHANGED <<variant, users, contacts, req, projects, nextBlogId, assets>>

\* What the .catch of cloudinary.uploader.destroy leaves of the call record:
\* the error is logged, nothing else.
DestroySettled(a, ok) == [a EXCEPT !.state = IF ok THEN "destroyed" ELSE "failed"]

DeleteBlogResult_AwaitAsset(hasImage) == IF hasImage THEN "pending" ELSE "resolved"

\* How deleteBlog settles once findOneAndDelete returned the record: resolve()
\* right after destroy was issued, without awaiting it.
DeleteBlogResult(hasImage) == "resolved"

\* deleteBlog(id, authorId)
DeleteBlog(id, authorId, dbOk) ==
    /\ LET i == FindBlog(blogs, id, authorId)
           data == BlogData(<< >>, << >>, NoImage)
       IN  IF ~dbOk
           THEN /\ UNCHANGED <<blogs, assets>>
                /\ call' = Call("deleteBlog", id, authorId, data, dbOk,
                                "rejected", "Error deleting blog")
           ELSE IF i = 0
           THEN /\ UNCHANGED <<blogs, assets>>
                /\ call' = Call("deleteBlog", id, authorId, data, dbOk,
                                "rejected", "Blog not found or unauthorized")
           ELSE /\ blogs' = RemoveAt(blogs, i)
                /\ assets' =
                     IF blogs[i].featuredImage # NoImage
                     THEN Append(assets,
                            [blogId |-> id,
                             publicId |-> PublicId(blogs[i].featuredImage),
                             state |-> "pending",
                             result |-> DeleteBlogResult(TRUE)])
                     ELSE assets
                /\ call' = Call("deleteBlog", id, authorId, data, dbOk,
                                DeleteBlogResult(blogs[i].featuredImage # NoImage), "")
    /\ UNCHANGED <<variant, users, contacts, req, projects, nextBlogId>>

\* cloudinary.uploader.destroy settles, after deleteBlog has resolved.
AssetDestroySettles(k, ok) ==
    /\ k \in 1..Len(assets)
    /\ assets[k].state = "pending"
    /\ assets' = [assets EXCEPT ![k] = DestroySettled(assets[k], ok)]
    /\ UNCHANGED <<variant, users, contacts, req, blogs, projects, nextBlogId, call>>

InitBlog ==
    /\ variant = "v2"
    /\ users = << >>
    /\ contacts = 0
    /\ req = [r \in Reqs |-> IdleReq]
    /\ blogs = << >>
    /\ projects = << >>
    /\ nextBlogId = 1
    /\ call = NoCall
    /\ assets = << >>

\* Ids a caller may name: those the store can have assigned, and one more.
BlogIds == 1..(MaxBlogs + 1)

\* Create and update over the contents and excerpts, by one author.
NextBlog ==
    \/ \E c \in Contents \cup {<< >>}, e \in Excerpts, dbOk \in BOOLEAN :
          CreateBlog(c, e, NoImage, 1, dbOk)
    \/ \E id \in BlogIds, c \in Contents \cup {<< >>}, e \in Excerpts, dbOk \in BOOLEAN :
          UpdateBlog(id, c, e, 1, dbOk)

SpecBlog == InitBlog /\ [][NextBlog]_vars

\* Create, update and delete by two users, with and without a featured image.
NextOwner ==
    \/ \E im \in Images, a \in UserIds : CreateBlog(Words(149), << >>, im, a, TRUE)
    \/ \E id \in BlogIds, c \in {<< >>, Words(2)}, e \in {<< >>, Rep("e", 301)},
          a \in UserIds, dbOk \in BOOLEAN : UpdateBlog(id, c, e, a, dbOk)
    \/ \E id \in BlogIds, a \in UserIds, dbOk \in BOOLEAN : DeleteBlog(id, a, dbOk)
    \/ \E k \in BlogIds, ok \in BOOLEAN : AssetDestroySettles(k, ok)

SpecOwner == InitBlog /\ [][NextOwner]_vars

(***************************************************************************)
(* Paginated lists: getBlogs and getProjects.                              *)
(***************************************************************************)
MaxTotal == 15           \* documents in the collection
MaxPage == 3             \* page numbers asked for
MaxLimit == 10           \* page sizes asked for

\* .sort({date: -1}): newest first, the reverse of insertion order.
SortNewestFirst(docs) == [i \in 1..Len(docs) |-> docs[Len(docs) + 1 - i]]

\* const skip = (page - 1) * limit
SkipCount(page, limit) == (page - 1) * limit

\* .skip(k)
Skip(docs, k) == SubSeq(docs, k + 1, Len(docs))

\* .limit(l), l >= 1
Limit(docs, l) == SubSeq(docs, 1, Min(l, Len(docs)))

\* Blog.find(query) / Blog.countDocuments(query): {published: true} or {}.
Query(bs, publishedOnly) == SelectSeq(bs, LAMBDA b : ~publishedOnly \/ b.published)

\* The object both list functions resolve with.
PageResult(op, docs, publishedOnly, page, limit) ==
    [NoCall EXCEPT
        !.op = op, !.result = "resolved", !.page = page, !.limit = limit,
        !.publishedOnly = publishedOnly,
        !.items = Limit(Skip(SortNewestFirst(docs), SkipCount(page, limit)), limit),
        !.total = Len(docs),
        !.totalPages = CeilDiv(Len(docs), limit),
        !.hasNextPage = page < CeilDiv(Len(docs), limit),
        !.hasPreviousPage = page > 1]

PageError(op, publishedOnly, page, limit, m) ==
    [NoCall EXCEPT !.op = op, !.result = "rejected", !.msg = m, !.page = page,
                   !.limit = limit, !.publishedOnly = publishedOnly, !.dbOk = FALSE]

\* getBlogs(publishedOnly, page, limit): Promise.all of the find and the count.
GetBlogs(publishedOnly, page, limit, dbOk) ==
    /\ call' = IF dbOk
               THEN PageResult("getBlogs", [i \in 1..Len(Query(blogs, publishedOnly)) |->
                                   Query(blogs, publishedOnly)[i].id],
                               publishedOnly, page, limit)
               ELSE PageError("getBlogs", publishedOnly, page, limit,
                              "Unable to retrieve blogs")
    /\ UNCHANGED <<variant, users, contacts, req, blogs, projects, nextBlogId, assets>>

\* getProjects(page, limit)
GetProjects(page, limit, dbOk) ==
    /\ call' = IF dbOk
               THEN PageResult("getProjects", projects, FALSE, page, limit)
               ELSE PageError("getProjects", FALSE, page, limit,
                              "Unable to retrieve projects")
    /\ UNCHANGED <<variant, users, contacts, req, blogs, projects, nextBlogId, assets>>

\* A blog as createBlog stores it from the one-word content "w".
StoredBlog(i, published) ==
    [id |-> i, author |-> 1, content |-> Words(1), excerpt |-> AutoExcerpt(Words(1)),
     readTime |-> ReadTime(Words(1)), featuredImage |-> NoImage, published |-> published]

\* A store of n blogs and n projects; the blogs all published, or every other one.
InitPage ==
    /\ variant = "v2"
    /\ users = << >>
    /\ contacts = 0
    /\ req = [r \in Reqs |-> IdleReq]
    /\ \E n \in 0..MaxTotal, allPublished \in BOOLEAN :
          /\ blogs = [i \in 1..n |-> StoredBlog(i, allPublished \/ i % 2 = 1)]
          /\ projects = [i \in 1..n |-> i]
          /\ nextBlogId = n + 1
    /\ call = NoCall
    /\ assets = << >>

NextPage ==
    \/ \E po \in BOOLEAN, page \in 1..MaxPage, limit \in 1..MaxLimit, dbOk \in BOOLEAN :
          GetBlogs(po, page, limit, dbOk)
    \/ \E page \in 1..MaxPage, limit \in 1..MaxLimit, dbOk \in BOOLEAN :
          GetProjects(page, limit, dbOk)

SpecPage == InitPage /\ [][NextPage]_vars

(***************************************************************************)
(* Properties of the content store.                                        *)
(***************************************************************************)
\* The stored blog whose _id is id (there is one).
BlogById(id) == blogs[CHOOSE i \in 1..Len(blogs) : blogs[i].id = id]

Stored(id) == \E i \in 1..Len(blogs) : blogs[i].id = id

\* Blogs bs hold a blog id whose author is caller.
IsAuthor(bs, id, caller) ==
    \E i \in 1..Len(bs) : bs[i].id = id /\ bs[i].author = caller

\* C2: an updateBlog by a caller who is not the author of a blog with that id
\* is rejected and leaves every stored blog as it was, and it is rejected with
\* exactly the message the same call gets from a store that holds no blog
\* with that id; when the update passes the validators and the store answers,
\* that message is "Blog not found or unauthorized".
C2_UpdateHidesExistence ==
    [][(/\ call'.op = "updateBlog"
        /\ call' # call
        /\ ~IsAuthor(blogs, call'.id, call'.caller))
       => /\ call'.result = "rejected"
          /\ blogs' = blogs
          /\ call'.msg =
               UpdateBlogOutcome(Without(blogs, call'.id), call'.id,
                                 BlogData(call'.content, call'.excerpt, NoImage),
                                 call'.caller, call'.dbOk).msg
          /\ (call'.dbOk /\ StrLen(call'.excerpt) <= ExcerptMax)
               => call'.msg = "Blog not found or unauthorized"]_vars

\* The blog exists, owned by someone else, and the caller was told so little.
C2_Witness ==
    /\ call.op = "updateBlog"
    /\ \E i \in 1..Len(blogs) : blogs[i].id = call.id /\ blogs[i].author # call.caller
    /\ Truthy(call.content)
    /\ call.result = "rejected"
    /\ call.msg = "Blog not found or unauthorized"

\* C7: a deleteBlog by the author of a stored blog with a featured image
\* removes the record and resolves in the step that issues the asset-host
\* delete, which is still pending then; when that delete later succeeds or
\* fails, the store and the settled result stay as they are, so every
\* deleteBlog that issued an asset delete has resolved and its blog is gone,
\* whatever became of the asset delete.
C7_DeleteIgnoresAssetHost ==
    /\ [](\A k \in 1..Len(assets) :
            assets[k].result = "resolved" /\ ~Stored(assets[k].blogId))
    /\ [][/\ (/\ call'.op = "deleteBlog"
              /\ call' # call
              /\ call'.dbOk
              /\ \E i \in 1..Len(blogs) :
                    /\ blogs[i].id = call'.id
                    /\ blogs[i].author = call'.caller
                    /\ blogs[i].featuredImage # NoImage)
             => /\ call'.result = "resolved"
                /\ blogs' = Without(blogs, call'.id)
                /\ Len(blogs') = Len(blogs) - 1
                /\ Len(assets') = Len(assets) + 1
                /\ assets'[Len(assets')].state = "pending"
          /\ (\E k \in 1..Len(assets) : assets[k].state = "pending" /\ assets' # assets
                                        /\ Len(assets') = Len(assets))
             => /\ blogs' = blogs
                /\ call' = call
                /\ \A k \in 1..Len(assets) : assets'[k].result = assets[k].result]_vars

\* The asset-host delete failed after the record was removed.
C7_Witness ==
    \E k \in 1..Len(assets) :
        /\ assets[k].state = "failed"
        /\ assets[k].result = "resolved"
        /\ ~Stored(assets[k].blogId)

\* tp = ceil(total / limit), said without the division.
IsCeil(tp, total, limit) == tp * limit >= total /\ (tp - 1) * limit < total

\* C9: getBlogs and getProjects, on a collection of total matching documents,
\* resolve with min(limit, max(0, total - (page-1)*limit)) items,
\* totalPages = ceil(total/limit), hasNextPage exactly when page < totalPages
\* and hasPreviousPage exactly when page > 1.
C9_Pagination ==
    (call.op \in {"getBlogs", "getProjects"} /\ call.result = "resolved")
    => /\ call.total =
            (IF call.op = "getProjects" THEN Len(projects)
             ELSE Cardinality({i \in 1..Len(blogs) :
                                  ~call.publishedOnly \/ blogs[i].published}))
       /\ Len(call.items) =
            Min(call.limit, Max(0, call.total - (call.page - 1) * call.limit))
       /\ IsCeil(call.totalPages, call.total, call.limit)
       /\ call.hasNextPage <=> (call.page < call.totalPages)
       /\ call.hasPreviousPage <=> (call.page > 1)

\* Page 2 of 15 blogs with limit 10: 5 items, no next page, a previous page.
C9_Witness ==
    /\ call.op = "getBlogs" /\ call.result = "resolved"
    /\ call.total = 15 /\ call.page = 2 /\ call.limit = 10
    /\ Len(call.items) = 5
    /\ ~call.hasNextPage /\ call.hasPreviousPage

\* The words of s, counted character by character: one more than its spaces.
WordCount(s) == Cardinality({i \in 1..StrLen(s) : CharAt(s, i) = " "}) + 1

\* Strings s and t read the same, character by character.
SameString(s, t) ==
    /\ StrLen(s) = StrLen(t)
    /\ \A i \in 1..StrLen(s) : CharAt(s, i) = CharAt(t, i)

\* e is the first 297 characters of c followed by "...".
IsAutoExcerpt(e, c) ==
    LET k == Min(StrLen(c), 297)
    IN  /\ StrLen(e) = k + 3
        /\ \A i \in 1..k : CharAt(e, i) = CharAt(c, i)
        /\ \A i \in (k + 1)..(k + 3) : CharAt(e, i) = "."
        /\ StrLen(e) <= 300
        /\ StrLen(c) >= 297 => StrLen(e) = 300

\* C10: after a createBlog or updateBlog with non-empty content has resolved,
\* the stored blog holds that content, its readTime is ceil(wordCount/200),
\* and its excerpt is the first 297 characters of the content followed by
\* "..." when the call gave no excerpt, the given excerpt otherwise.
C10_ExcerptAndReadTime ==
    (/\ call.op \in {"createBlog", "updateBlog"}
     /\ call.result = "resolved"
     /\ Truthy(call.content))
    => /\ Stored(call.id)
       /\ LET b == BlogById(call.id)
          IN  /\ SameString(b.content, call.content)
              /\ IsCeil(b.readTime, WordCount(b.content), 200)
              /\ IF Truthy(call.excerpt)
                 THEN SameString(b.excerpt, call.excerpt)
                 ELSE IsAutoExcerpt(b.excerpt, b.content)

\* A blog created from 1000 characters of content and no excerpt: its excerpt
\* has 300 characters and its 201 words read in 2 minutes.
C10_Witness ==
    /\ call.op = "createBlog" /\ call.result = "resolved"
    /\ StrLen(call.content) = 1000
    /\ ~Truthy(call.excerpt)
    /\ StrLen(BlogById(call.id).excerpt) = 300
    /\ BlogById(call.id).readTime = 2

====
